---------------------------- MODULE Spec2Model ----------------------------
(***************************************************************************)
(* A model of the adaptation engine of network-god-engine:                 *)
(*   - SelfImprovementSystem (src/game_engine/self_improvement_system.py): *)
(*     the metric history, the adaptation cycle, the optimization queue    *)
(*     and the strategies' effectiveness feedback;                         *)
(*   - GameEngine (src/game_engine/engine_core.py): the engine state, the  *)
(*     scheduler threads and the per-tick subsystem updates.               *)
(*                                                                         *)
(* Numbers.  Python floats are modelled by exact fixed-point integers:     *)
(*   - a performance ratio value/target is kept in thousandths (RatioScale)*)
(*     and the input sets keep value * RatioScale divisible by target;     *)
(*   - a mean is kept as the pair <<numerator, denominator>> and compared  *)
(*     by cross-multiplication;                                            *)
(*   - a strategy's effectiveness is kept in hundredths (0.1 is 10);       *)
(*   - wall-clock time is an integer number of 5-second units.             *)
(* Fields that no modelled operation reads (a metric's timestamp and       *)
(* weight, a strategy's description and parameters) are left out.          *)
(***************************************************************************)
EXTENDS Integers, Sequences, FiniteSets, TLC

VARIABLES
    \* ---- SelfImprovementSystem ----
    settings,              \* ImprovementSettings (the fields the code reads)
    stats,                 \* ImprovementStats
    performance_history,   \* List[PerformanceMetric]
    performance_trends,    \* Dict[str, List[float]], in insertion order
    system_baselines,      \* Dict[str, Dict[str, float]], as a list of entries
    optimization_strategies, \* List[OptimizationStrategy]
    optimization_queue,    \* list of requests; a request holds its strategy
                           \* by reference: here its index in the list above
    improvement_suggestions,
    last_adaptation_time,
    now,                   \* time.time()
    \* ---- history variables (not program state) ----
    recorded,              \* the metrics recorded since the last clear
    enqueued,              \* every request ever appended to the queue
    record_calls,          \* record_performance_metric calls since the initial state
    applied,               \* every request ever popped, with the random draw
    last_analysis,         \* performance_analysis of the latest cycle that
                           \* returned one, the number of samples the
                           \* latest cycle was given, whether it raised
                           \* and the time at which it ran
    \* ---- GameEngine ----
    state,                 \* EngineState
    systems,               \* the keys of self.systems, in registration order
    system_info,           \* name -> SystemInfo (status, performance)
    last_frame_time,
    current_frame,
    performance_metrics,   \* frame number -> metrics of that frame
    threads,               \* the scheduler threads start() has created, each
                           \* with its place in _main_loop and its locals
    \* ---- history variables (not program state) ----
    tick_log,              \* per thread: the update() calls of its current
                           \* tick, each with delta_time and whether it raised
    elapsed,               \* per thread: .tick, the clock time that has
                           \* passed since it read start_time, up to its
                           \* reading end_time; .paused, the clock time that
                           \* has passed while it polled a Paused engine
    stop_called,           \* per thread: stop() has been called since the
                           \* thread was created
    since_scan             \* the ticks of the current run that have passed
                           \* line 108 since the latest scan of line 146;
                           \* -1 while the run has had no scan

imp_vars == <<settings, stats, performance_history, performance_trends,
              system_baselines, optimization_strategies, optimization_queue,
              improvement_suggestions, last_adaptation_time, now,
              recorded, record_calls, enqueued, applied, last_analysis>>

eng_vars == <<state, systems, system_info, last_frame_time, current_frame,
              performance_metrics, threads, tick_log, elapsed,
              stop_called, since_scan>>

vars == <<imp_vars, eng_vars>>

-----------------------------------------------------------------------------
(* Program constants *)

RatioScale == 1000
MinAnalysisSamples == 10
AnalysisWindow == 100
BottleneckThreshold == 700
HighSeverityThreshold == 500
OptimizationThreshold == 800
AdaptationInterval == 2
TrendMinSamples == 50
TrendWindow == 50
TrendCap == 100
BaselineMinSamples == 100
BaselineWindow == 100
BaselineScale == 1000
SuggestionMinTrend == 10
EffectivenessMax == 100
EffectivenessGain == 10
EffectivenessLoss == 5

FrameRate == 60
ScanPeriod == 300
PerformanceScale == 1000
RecentFrames == 300

(* Bounds of the model *)

HistorySize == 11      \* settings.performance_history_size of the adaptation runs
StoreSize == 3         \* settings.performance_history_size of the store runs
PrefillLen == 8        \* samples already recorded in an initial state
MaxRecords == 4        \* record_performance_metric calls between two clears
StartTime == 3         \* time.time() at construction, > AdaptationInterval
MaxTime == 9           \* the clock of the store and healthy runs stops here
MaxStrategies == 7     \* no strategy is added once the list holds this many
AdaptTime == 6         \* the clock of the adaptation runs stops here
AdaptRecords == 3      \* record calls of an adaptation run
LongTime == 36         \* the clock of the effectiveness runs stops here
TrajectoryTime == 15   \* the clock of the trajectory runs stops here
MaxThreads == 1        \* scheduler threads one run creates
MaxFrames == 2         \* no tick begins once current_frame is this
TimingTime == 5        \* the clock of the timed engine runs stops here
LongFrames == 301      \* no tick of a long run begins once current_frame is this
RestartThreads == 2    \* scheduler threads a run with restarts creates
ContainFrames == 3     \* no tick of a run with a raising cycle begins once
                       \* current_frame is this
ContainRecords == 1    \* record calls of a run with a raising cycle
WindowHistory == 102   \* settings.performance_history_size of the runs with
                       \* full windows
TrendCycles == 3       \* adaptation cycles of a run with a zero target
WindowRecords == 2     \* record calls of a run with full windows

-----------------------------------------------------------------------------
(* Helpers *)

Min(a, b) == IF a < b THEN a ELSE b
Max(a, b) == IF a > b THEN a ELSE b

\* sum(s), the halves summed apart: a sum of a hundred stays shallow
RECURSIVE SumSeq(_)
SumSeq(s) ==
    IF s = <<>> THEN 0
    ELSE IF Len(s) = 1 THEN s[1]
    ELSE LET half == Len(s) \div 2
         IN SumSeq(SubSeq(s, 1, half)) + SumSeq(SubSeq(s, half + 1, Len(s)))

RECURSIVE ProdSeq(_)
ProdSeq(s) == IF s = <<>> THEN 1 ELSE s[1] * ProdSeq(Tail(s))

\* list[-n:]
LastN(s, n) == IF Len(s) <= n THEN s ELSE SubSeq(s, Len(s) - n + 1, Len(s))

\* list.pop(0) leaves this
PopFront(s) == Tail(s)

\* a variant of Ratio with the quotient upside down: target / value
Ratio_inverted(m) == (m.target * RatioScale) \div m.value

\* metric.value / metric.target, in thousandths; Python raises
\* ZeroDivisionError for a target of 0, and the callers below never
\* evaluate Ratio on such a metric
Ratio(m) == (m.value * RatioScale) \div m.target

PerformanceMetric(system_name, metric_name, value, target) ==
    [system_name |-> system_name, metric_name |-> metric_name,
     value |-> value, target |-> target]

OptimizationStrategy(name) ==
    [name |-> name, effectiveness |-> 0, last_applied |-> 0,
     application_count |-> 0]

\* _initialize_optimization_strategies
DefaultStrategies ==
    << OptimizationStrategy("rendering_quality_adjustment"),
       OptimizationStrategy("physics_complexity_reduction"),
       OptimizationStrategy("ai_behavior_optimization"),
       OptimizationStrategy("content_generation_caching"),
       OptimizationStrategy("network_packet_rate_adjustment") >>

\* strategy_mapping of _select_optimization_strategy; "" is a missing key
strategy_mapping(system) ==
    CASE system = "renderer" -> "rendering_quality_adjustment"
      [] system = "physics" -> "physics_complexity_reduction"
      [] system = "ai_behavior" -> "ai_behavior_optimization"
      [] system = "content_generator" -> "content_generation_caching"
      [] system = "networking" -> "network_packet_rate_adjustment"
      [] OTHER -> ""

-----------------------------------------------------------------------------
(* _analyze_performance *)

\* the keys of system_performance, in dict (first insertion) order: the
\* names in the order of the metrics that insert them (line 208)
system_order(metrics) ==
    LET inserts == {k \in 1..Len(metrics) :
                      \A j \in 1..(k - 1) :
                         metrics[j].system_name # metrics[k].system_name}
    IN [i \in 1..Cardinality(inserts) |->
          LET k == CHOOSE k \in inserts :
                      Cardinality({j \in inserts : j <= k}) = i
          IN metrics[k].system_name]

\* system_performance[system]: the ratios of its metrics, in order
system_ratios(metrics, system) ==
    LET of_system(metric) == metric.system_name = system
        appended == SelectSeq(metrics, of_system)
    IN [i \in 1..Len(appended) |-> Ratio(appended[i])]

\* a variant of avg_below whose comparison admits the bound itself
avg_below_inclusive(values, bound) == SumSeq(values) <= bound * Len(values)

\* avg_performance < bound, for avg = sum(values) / len(values)
avg_below(values, bound) == SumSeq(values) < bound * Len(values)

severity_of(values) ==
    IF avg_below(values, HighSeverityThreshold) THEN "high" ELSE "medium"

\* a variant of bottlenecks_of that reports a slow system once per sample:
\* the threshold test inside the loop over the metrics
bottlenecks_per_sample(metrics) ==
    LET F[i \in 0..Len(metrics)] ==
          IF i = 0 THEN <<>>
          ELSE LET values == system_ratios(metrics, metrics[i].system_name)
               IN IF avg_below(values, BottleneckThreshold)
                  THEN Append(F[i-1],
                              [system |-> metrics[i].system_name,
                               performance |-> <<SumSeq(values), Len(values)>>,
                               severity |-> severity_of(values)])
                  ELSE F[i-1]
    IN F[Len(metrics)]

bottlenecks_of(metrics) ==
    LET order == system_order(metrics)
        F[i \in 0..Len(order)] ==
          IF i = 0 THEN <<>>
          ELSE LET values == system_ratios(metrics, order[i])
               IN IF avg_below(values, BottleneckThreshold)
                  THEN Append(F[i-1],
                              [system |-> order[i],
                               performance |-> <<SumSeq(values), Len(values)>>,
                               severity |-> severity_of(values)])
                  ELSE F[i-1]
    IN F[Len(order)]

\* sum(system_averages.values()) / len(system_averages), as <<num, den>>
overall_of(metrics) ==
    LET order == system_order(metrics)
        counts == [i \in 1..Len(order) |-> Len(system_ratios(metrics, order[i]))]
        P == ProdSeq(counts)
        terms == [i \in 1..Len(order) |->
                    SumSeq(system_ratios(metrics, order[i])) * (P \div counts[i])]
    IN IF Len(order) = 0 THEN <<RatioScale, 1>>
       ELSE <<SumSeq(terms), Len(order) * P>>

\* a variant of analyze_performance without the insufficient-data policy:
\* it analyses any history that is not empty
analyze_performance_any(history) ==
    IF history = <<>>
    THEN [overall_performance |-> <<RatioScale, 1>>, bottlenecks |-> <<>>]
    ELSE LET recent_metrics == LastN(history, AnalysisWindow)
         IN [overall_performance |-> overall_of(recent_metrics),
             bottlenecks |-> bottlenecks_of(recent_metrics)]

\* a variant of analyze_performance that reads the whole history
analyze_performance_whole(history) ==
    IF Len(history) < MinAnalysisSamples
    THEN [overall_performance |-> <<RatioScale, 1>>, bottlenecks |-> <<>>]
    ELSE [overall_performance |-> overall_of(history),
          bottlenecks |-> bottlenecks_of(history)]

analyze_performance(history) ==
    IF Len(history) < MinAnalysisSamples
    THEN [overall_performance |-> <<RatioScale, 1>>, bottlenecks |-> <<>>]
    ELSE LET recent_metrics == LastN(history, AnalysisWindow)
         IN [overall_performance |-> overall_of(recent_metrics),
             bottlenecks |-> bottlenecks_of(recent_metrics)]

\* overall_performance < threshold
below_threshold(overall, threshold) == overall[1] < threshold * overall[2]
-----------------------------------------------------------------------------
(* _select_optimization_strategy, _apply_optimizations *)

\* a variant of find_strategy that returns the last strategy of that name
find_strategy_last(strategies, strategy_name) ==
    IF \E i \in 1..Len(strategies) : strategies[i].name = strategy_name
    THEN CHOOSE i \in 1..Len(strategies) :
            /\ strategies[i].name = strategy_name
            /\ \A j \in (i+1)..Len(strategies) :
                  strategies[j].name # strategy_name
    ELSE 0

\* the first strategy of that name, by index; 0 is None
find_strategy(strategies, strategy_name) ==
    IF \E i \in 1..Len(strategies) : strategies[i].name = strategy_name
    THEN CHOOSE i \in 1..Len(strategies) :
            /\ strategies[i].name = strategy_name
            /\ \A j \in 1..(i-1) : strategies[j].name # strategy_name
    ELSE 0

\* a variant of select_optimization_strategy that falls back on the first
\* strategy for a system without a mapping
select_optimization_strategy_default(strategies, system) ==
    LET strategy_name == strategy_mapping(system)
    IN IF strategy_name = "" THEN 1
       ELSE find_strategy(strategies, strategy_name)

select_optimization_strategy(strategies, system) ==
    LET strategy_name == strategy_mapping(system)
    IN IF strategy_name = "" THEN 0
       ELSE find_strategy(strategies, strategy_name)

\* the queue after the loop over the bottlenecks
apply_optimizations(queue, bottlenecks, strategies, time) ==
    LET F[i \in 0..Len(bottlenecks)] ==
          IF i = 0 THEN queue
          ELSE LET system == bottlenecks[i].system
                   severity == bottlenecks[i].severity
                   strategy == select_optimization_strategy(strategies, system)
               IN IF strategy # 0
                  THEN Append(F[i-1], [strategy |-> strategy, system |-> system,
                                       severity |-> severity, timestamp |-> time])
                  ELSE F[i-1]
    IN F[Len(bottlenecks)]

-----------------------------------------------------------------------------
(* _apply_optimization_strategy, _process_optimization_queue *)

\* a variant of effectiveness_after without the clamps min(1.0, .), max(0.0, .)
effectiveness_after_unclamped(effectiveness, random_success) ==
    IF random_success
    THEN effectiveness + EffectivenessGain
    ELSE effectiveness - EffectivenessLoss

\* a variant of effectiveness_after whose failure step is as large as the
\* success step
effectiveness_after_even(effectiveness, random_success) ==
    IF random_success
    THEN Min(EffectivenessMax, effectiveness + EffectivenessGain)
    ELSE Max(0, effectiveness - EffectivenessGain)

\* lines 307-310: the effectiveness after the random draw
effectiveness_after(effectiveness, random_success) ==
    IF random_success
    THEN Min(EffectivenessMax, effectiveness + EffectivenessGain)
    ELSE Max(0, effectiveness - EffectivenessLoss)

\* The strategy after the call and the value the call returns.  Nothing in
\* the try block raises (time.sleep, random.random, min, max), and line 312
\* returns True whatever the draw was.
apply_optimization_strategy(strategy, random_success) ==
    [strategy |-> [strategy EXCEPT
                     !.effectiveness = effectiveness_after(@, random_success)],
     success |-> TRUE]

\* a variant of pop_request that takes the newest request: pop() for pop(0)
pop_request_newest(queue) ==
    [optimization |-> queue[Len(queue)],
     queue |-> SubSeq(queue, 1, Len(queue) - 1)]

\* a variant of pop_request that drops a second request with the first
pop_request_two(queue) ==
    [optimization |-> Head(queue),
     queue |-> IF Len(queue) >= 2 THEN PopFront(PopFront(queue)) ELSE <<>>]

\* line 282, optimization_queue.pop(0): the request popped and the queue left
pop_request(queue) ==
    [optimization |-> Head(queue), queue |-> PopFront(queue)]

\* a variant of process_optimization_queue that counts an application on
\* the strategy only when the draw succeeded
process_optimization_queue_drawn(queue, strategies, st, random_success, time) ==
    IF queue = <<>>
    THEN [queue |-> queue, strategies |-> strategies, stats |-> st,
          popped |-> <<>>]
    ELSE LET pop == pop_request(queue)
             i == pop.optimization.strategy
             r == apply_optimization_strategy(strategies[i], random_success)
         IN [queue |-> pop.queue,
             strategies |-> [strategies EXCEPT ![i] =
                 [r.strategy EXCEPT
                    !.application_count = IF random_success THEN @ + 1 ELSE @,
                    !.last_applied = time]],
             stats |-> [st EXCEPT !.optimizations_applied = @ + 1],
             popped |-> <<pop.optimization>>]

\* [queue, strategies, stats] after _process_optimization_queue, and the
\* requests it popped (none or one)
process_optimization_queue(queue, strategies, st, random_success, time) ==
    IF queue = <<>>
    THEN [queue |-> queue, strategies |-> strategies, stats |-> st,
          popped |-> <<>>]
    ELSE LET pop == pop_request(queue)
             i == pop.optimization.strategy
             r == apply_optimization_strategy(strategies[i], random_success)
         IN IF r.success
            THEN [queue |-> pop.queue,
                  strategies |-> [strategies EXCEPT ![i] =
                      [r.strategy EXCEPT !.application_count = @ + 1,
                                         !.last_applied = time]],
                  stats |-> [st EXCEPT !.optimizations_applied = @ + 1],
                  popped |-> <<pop.optimization>>]
            ELSE [queue |-> pop.queue,
                  strategies |-> [strategies EXCEPT ![i] = r.strategy],
                  stats |-> [st EXCEPT !.failed_optimizations = @ + 1],
                  popped |-> <<pop.optimization>>]

-----------------------------------------------------------------------------
(* _update_performance_trends, _generate_improvement_suggestions *)

trend_index(trends, system) ==
    IF \E i \in 1..Len(trends) : trends[i].system = system
    THEN CHOOSE i \in 1..Len(trends) : trends[i].system = system
    ELSE 0

\* some metric of the list has target 0: the division of lines 210 and 330
\* raises ZeroDivisionError on it
zero_target(metrics) == \E k \in 1..Len(metrics) : metrics[k].target = 0

\* the first such metric's place in the list
first_zero_target(metrics) ==
    CHOOSE k \in 1..Len(metrics) :
       /\ metrics[k].target = 0
       /\ \A j \in 1..(k - 1) : metrics[j].target # 0

\* _analyze_performance raises (line 210)
analysis_raises(history) ==
    /\ Len(history) >= MinAnalysisSamples
    /\ zero_target(LastN(history, AnalysisWindow))

\* _update_performance_trends raises (line 330)
trends_raise(history) ==
    /\ Len(history) >= TrendMinSamples
    /\ zero_target(LastN(history, TrendWindow))

\* a variant of trend_step that never evicts
trend_step_uncapped(trends, metric) ==
    LET system == metric.system_name
        present == IF trend_index(trends, system) = 0
                   THEN Append(trends, [system |-> system, values |-> <<>>])
                   ELSE trends
        i == trend_index(present, system)
    IN IF metric.target = 0 THEN present
       ELSE [present EXCEPT ![i].values = Append(@, Ratio(metric))]

\* one iteration of the loop of lines 325-335
trend_step(trends, metric) ==
    LET system == metric.system_name
        present == IF trend_index(trends, system) = 0
                   THEN Append(trends, [system |-> system, values |-> <<>>])
                   ELSE trends
        i == trend_index(present, system)
        grown == Append(present[i].values, Ratio(metric))
    IN IF metric.target = 0 THEN present    \* line 330 raises
       ELSE [present EXCEPT ![i].values =
               IF Len(grown) > TrendCap THEN PopFront(grown) ELSE grown]

\* the iterations lo..hi of that loop, the halves one after the other; the
\* test on the first half has its value computed before the second half
\* begins, which keeps the evaluation of a 50-metric loop shallow
RECURSIVE trend_steps(_, _, _, _)
trend_steps(trends, metrics, lo, hi) ==
    IF lo > hi THEN trends
    ELSE IF lo = hi THEN trend_step(trends, metrics[lo])
    ELSE LET mid == (lo + hi) \div 2
             first == trend_steps(trends, metrics, lo, mid)
         IN IF first = trends
            THEN trend_steps(trends, metrics, mid + 1, hi)
            ELSE trend_steps(first, metrics, mid + 1, hi)

update_performance_trends(trends, history) ==
    IF Len(history) < TrendMinSamples THEN trends
    ELSE LET recent_metrics == LastN(history, TrendWindow)
             \* the loop ends at the first metric it raises on
             last == IF zero_target(recent_metrics)
                     THEN first_zero_target(recent_metrics)
                     ELSE Len(recent_metrics)
         IN trend_steps(trends, recent_metrics, 1, last)

\* recent_trend < older_trend * 0.9, both sums of five ratios
declining(values) ==
    LET recent == SumSeq(LastN(values, 5))
        older == SumSeq(SubSeq(values, Len(values) - 9, Len(values) - 5))
    IN 10 * recent < 9 * older

generate_improvement_suggestions(trends, time) ==
    LET F[i \in 0..Len(trends)] ==
          IF i = 0 THEN <<>>
          ELSE IF Len(trends[i].values) < SuggestionMinTrend THEN F[i-1]
          ELSE IF declining(trends[i].values)
               THEN Append(F[i-1],
                      [system |-> trends[i].system,
                       type |-> "performance_decline",
                       severity |->
                         IF SumSeq(LastN(trends[i].values, 5))
                              < 5 * HighSeverityThreshold
                         THEN "high" ELSE "medium",
                       timestamp |-> time])
               ELSE F[i-1]
    IN F[Len(trends)]

-----------------------------------------------------------------------------
(* _update_baselines: an entry per (system, metric_name); the baseline is   *)
(* kept in BaselineScale-ths of the metric's unit, every update rounded to *)
(* the nearest of them as a float operation rounds to the nearest float.   *)

baseline_index(baselines, system, metric_name) ==
    IF \E i \in 1..Len(baselines) :
          baselines[i].system = system /\ baselines[i].metric_name = metric_name
    THEN CHOOSE i \in 1..Len(baselines) :
          baselines[i].system = system /\ baselines[i].metric_name = metric_name
    ELSE 0

\* a variant of baseline_step that averages toward the metric's target
baseline_step_toward_target(baselines, metric) ==
    LET i == baseline_index(baselines, metric.system_name, metric.metric_name)
        current_baseline == IF i = 0 THEN metric.target * BaselineScale
                            ELSE baselines[i].value
        new_baseline ==
           (current_baseline * 9 + metric.target * BaselineScale + 5) \div 10
    IN IF i = 0
       THEN Append(baselines, [system |-> metric.system_name,
                               metric_name |-> metric.metric_name,
                               value |-> new_baseline])
       ELSE [baselines EXCEPT ![i].value = new_baseline]

\* one iteration of the loop of lines 370-380
baseline_step(baselines, metric) ==
    LET i == baseline_index(baselines, metric.system_name, metric.metric_name)
        current_baseline == IF i = 0 THEN metric.target * BaselineScale
                            ELSE baselines[i].value
        new_baseline ==
           (current_baseline * 9 + metric.value * BaselineScale + 5) \div 10
    IN IF i = 0
       THEN Append(baselines, [system |-> metric.system_name,
                               metric_name |-> metric.metric_name,
                               value |-> new_baseline])
       ELSE [baselines EXCEPT ![i].value = new_baseline]

\* the iterations lo..hi of that loop, the halves one after the other; the
\* test on the first half has its value computed before the second half
\* begins, which keeps the evaluation of a 100-metric loop shallow
RECURSIVE baseline_steps(_, _, _, _)
baseline_steps(baselines, metrics, lo, hi) ==
    IF lo > hi THEN baselines
    ELSE IF lo = hi THEN baseline_step(baselines, metrics[lo])
    ELSE LET mid == (lo + hi) \div 2
             first == baseline_steps(baselines, metrics, lo, mid)
         IN IF first = baselines
            THEN baseline_steps(baselines, metrics, mid + 1, hi)
            ELSE baseline_steps(first, metrics, mid + 1, hi)

\* a variant of update_baselines without the minimum of 100 samples
update_baselines_unguarded(baselines, history) ==
    LET recent_metrics == LastN(history, BaselineWindow)
    IN baseline_steps(baselines, recent_metrics, 1, Len(recent_metrics))

update_baselines(baselines, history) ==
    IF Len(history) < BaselineMinSamples THEN baselines
    ELSE LET recent_metrics == LastN(history, BaselineWindow)
         IN baseline_steps(baselines, recent_metrics, 1, Len(recent_metrics))

-----------------------------------------------------------------------------
(* The operations of SelfImprovementSystem *)

\* a variant of record_metric that trims one entry too late
record_metric_trims_late(history, metric, capacity) ==
    LET grown == Append(history, metric)
    IN IF Len(grown) > capacity + 1 THEN PopFront(grown) ELSE grown

\* a variant of record_metric that drops the newest entry: pop() for pop(0)
record_metric_drops_newest(history, metric, capacity) ==
    LET grown == Append(history, metric)
    IN IF Len(grown) > capacity THEN SubSeq(grown, 1, Len(grown) - 1) ELSE grown

\* lines 405-409
record_metric(history, metric, capacity) ==
    LET grown == Append(history, metric)
    IN IF Len(grown) > capacity THEN PopFront(grown) ELSE grown

record_performance_metric(system_name, metric_name, value, target) ==
    LET metric == PerformanceMetric(system_name, metric_name, value, target)
    IN /\ performance_history' =
             record_metric(performance_history, metric,
                           settings.performance_history_size)
       /\ recorded' = Append(recorded, metric)
       /\ record_calls' = record_calls + 1
       /\ UNCHANGED <<settings, stats, performance_trends, system_baselines,
                      optimization_strategies, optimization_queue,
                      improvement_suggestions, last_adaptation_time, now,
                      enqueued, applied, last_analysis, eng_vars>>

\* record_performance_metric called on a thread of its own, which the
\* scheduler's thread can interleave with: no lock is taken, and the append
\* of line 405 and the trim of lines 408-409 are two steps.  The recording
\* thread is between the two exactly when the history is over its capacity.
record_append(system_name, metric_name, value, target) ==
    LET metric == PerformanceMetric(system_name, metric_name, value, target)
    IN /\ Len(performance_history) <= settings.performance_history_size
       /\ performance_history' = Append(performance_history, metric)
       /\ recorded' = Append(recorded, metric)
       /\ record_calls' = record_calls + 1
       /\ UNCHANGED <<settings, stats, performance_trends, system_baselines,
                      optimization_strategies, optimization_queue,
                      improvement_suggestions, last_adaptation_time, now,
                      enqueued, applied, last_analysis, eng_vars>>

\* lines 408-409, on the recording thread
record_trim ==
    /\ Len(performance_history) > settings.performance_history_size
    /\ performance_history' = PopFront(performance_history)
    /\ UNCHANGED <<settings, stats, performance_trends, system_baselines,
                   optimization_strategies, optimization_queue,
                   improvement_suggestions, last_adaptation_time, now,
                   recorded, record_calls, enqueued, applied, last_analysis,
                   eng_vars>>

\* a variant of clear_performance_history that resets the learned state too
clear_performance_history_all ==
    /\ performance_history' = <<>>
    /\ performance_trends' = <<>>
    /\ recorded' = <<>>
    /\ system_baselines' = <<>>
    /\ last_adaptation_time' = 0
    /\ UNCHANGED <<record_calls, settings, stats, optimization_strategies,
                   optimization_queue, improvement_suggestions, now,
                   enqueued, applied, last_analysis, eng_vars>>

clear_performance_history ==
    /\ performance_history' = <<>>
    /\ performance_trends' = <<>>
    /\ recorded' = <<>>
    /\ UNCHANGED <<record_calls, settings, stats, system_baselines, optimization_strategies,
                   optimization_queue, improvement_suggestions,
                   last_adaptation_time, now, enqueued, applied, last_analysis,
                   eng_vars>>

\* lines 411-414: the strategy is appended, whatever its name
add_optimization_strategy(name) ==
    /\ optimization_strategies' =
          Append(optimization_strategies, OptimizationStrategy(name))
    /\ UNCHANGED <<settings, stats, performance_history, performance_trends,
                   system_baselines, optimization_queue,
                   improvement_suggestions, last_adaptation_time, now,
                   recorded, record_calls, enqueued, applied, last_analysis,
                   eng_vars>>

\* whether update() runs _perform_adaptation (line 163)
adaptation_due ==
    now - last_adaptation_time > settings.adaptation_interval

\* the queue after _perform_adaptation (lines 183-187)
queue_after_adaptation ==
    LET performance_analysis == analyze_performance(performance_history)
    IN IF below_threshold(performance_analysis.overall_performance,
                          settings.optimization_threshold)
       THEN apply_optimizations(optimization_queue,
                                performance_analysis.bottlenecks,
                                optimization_strategies, now)
       ELSE optimization_queue

\* update() raises: in the analysis of a due cycle, or else in the trends
update_raises ==
    \/ adaptation_due /\ analysis_raises(performance_history)
    \/ trends_raise(performance_history)

\* update() up to the exception of line 210: _perform_adaptation has counted
\* the cycle (line 179) and nothing after line 164 is executed
update_cycle_raised ==
    /\ stats' = [stats EXCEPT !.learning_cycles = @ + 1]
    /\ last_analysis' = [last_analysis EXCEPT
                            !.samples = Len(performance_history),
                            !.raised = TRUE,
                            !.time = now]
    /\ UNCHANGED <<settings, performance_history, performance_trends,
                   system_baselines, optimization_strategies,
                   optimization_queue, improvement_suggestions,
                   last_adaptation_time, now, recorded, record_calls,
                   enqueued, applied>>

\* update() when the analysis of the cycle, if one is due, returns
update_cycle_returned(random_success, logged) ==
    LET due == adaptation_due
        queue1 == IF due THEN queue_after_adaptation ELSE optimization_queue
        stats1 == IF due THEN [stats EXCEPT !.learning_cycles = @ + 1] ELSE stats
        p == process_optimization_queue(queue1, optimization_strategies,
                                        stats1, random_success, now)
        trends1 == update_performance_trends(performance_trends,
                                             performance_history)
    IN /\ queue1 = <<>> => random_success
       /\ system_baselines' =
            IF due THEN update_baselines(system_baselines, performance_history)
            ELSE system_baselines
       /\ last_adaptation_time' = IF due THEN now ELSE last_adaptation_time
       /\ optimization_queue' = p.queue
       /\ optimization_strategies' = p.strategies
       /\ stats' = p.stats
       /\ performance_trends' = trends1
       /\ improvement_suggestions' =
            IF /\ settings.enable_autonomous_optimization
               /\ ~trends_raise(performance_history)
            THEN generate_improvement_suggestions(trends1, now)
            ELSE improvement_suggestions
       /\ enqueued' = IF ~logged THEN enqueued
                      ELSE enqueued \o SubSeq(queue1, Len(optimization_queue) + 1,
                                              Len(queue1))
       /\ applied' = IF ~logged \/ p.popped = <<>> THEN applied
                     ELSE Append(applied, [request |-> p.popped[1],
                                           random_success |-> random_success])
       /\ last_analysis' =
            IF due THEN [samples |-> Len(performance_history),
                         raised |-> FALSE, time |-> now]
                        @@ analyze_performance(performance_history)
            ELSE last_analysis
       /\ UNCHANGED <<settings, performance_history, now, recorded,
                      record_calls>>

\* update(delta_time); random_success is the draw of line 306, read only
\* when a request is dequeued; `logged` says whether the run keeps the
\* history variables enqueued and applied
update_improvement(random_success, logged) ==
    IF adaptation_due /\ analysis_raises(performance_history)
    THEN random_success /\ update_cycle_raised
    ELSE update_cycle_returned(random_success, logged)

\* update() called by the owner of the system, the engine left alone
update(random_success, logged) ==
    /\ update_improvement(random_success, logged)
    /\ UNCHANGED eng_vars

\* the wall clock moves on by delta units
advance_time(delta, limit) ==
    /\ now + delta <= limit
    /\ now' = now + delta
    /\ UNCHANGED <<settings, stats, performance_history, performance_trends,
                   system_baselines, optimization_strategies,
                   optimization_queue, improvement_suggestions,
                   last_adaptation_time, recorded, record_calls, enqueued,
                   applied, last_analysis>>
    /\ elapsed' = [t \in DOMAIN elapsed |->
                      IF threads[t].pc \in {"update", "adapt"}
                      THEN [elapsed[t] EXCEPT !.tick = @ + delta]
                      ELSE IF threads[t].pc \in {"while", "if"}
                              /\ state = "PAUSED"
                      THEN [elapsed[t] EXCEPT !.paused = @ + delta]
                      ELSE elapsed[t]]
    /\ UNCHANGED <<state, systems, system_info, last_frame_time,
                   current_frame, performance_metrics, threads, tick_log,
                   stop_called, since_scan>>
-----------------------------------------------------------------------------
(* GameEngine (engine_core.py).  A scheduler thread is at one of these     *)
(* places of _main_loop:                                                   *)
(*   "while"   about to test  self.state != STOPPED        (line 100)      *)
(*   "if"      about to test  self.state == RUNNING        (line 101)      *)
(*   "update"  in _update_systems, about to update systems[index]          *)
(*   "adapt"   about to run _adapt_and_improve and read the clock          *)
(*   "store"   about to store current_frame and the frame's metrics        *)
(*   "done"    has left the loop                                           *)
(* The two sleeps (lines 126, 129) change no state; time passing is the    *)
(* clock's own step.                                                       *)

SystemInfo(status, performance) ==
    [status |-> status, performance |-> performance]

Thread(pc) == [pc |-> pc, index |-> 0, start_time |-> 0, frame_duration |-> 0]

\* line 137: min(1.0, 1.0 / (self.frame_time * 0.9)), frame_time = 1 / 60
performance_after_update ==
    Min(PerformanceScale, (PerformanceScale * FrameRate * 10) \div 9)

\* self.frame_time = 1.0 / self.frame_rate, in seconds, as <<num, den>>
frame_time == <<1, FrameRate>>

\* a variant of delta_time: a variable step, the time measured since the
\* tick began (in clock units)
delta_time_measured(fixed, measured) == <<measured, 1>>

\* line 136: the argument of system.update() is self.frame_time
delta_time(fixed, measured) == fixed

\* a variant of next_index in which the try block encloses the loop: an
\* exception ends the loop over the systems
next_index_outer_try(index, raised, count) ==
    IF raised THEN count + 1 ELSE index + 1

\* the for loop of _update_systems goes on to the next system, whether
\* update() returned or the except clause caught what it raised
next_index(index, raised, count) == index + 1

\* a variant of info_after_update whose except clause only prints
info_after_update_silent(info, raised) ==
    IF raised THEN info
    ELSE [info EXCEPT !.performance = performance_after_update]

\* lines 134-140: the SystemInfo after system.update() returned or raised
info_after_update(info, raised) ==
    IF raised THEN [info EXCEPT !.status = "error"]
    ELSE [info EXCEPT !.performance = performance_after_update]

\* _optimize_systems, lines 175-179
optimize_systems(infos, adaptation_enabled) ==
    [name \in DOMAIN infos |->
        IF infos[name].performance < 800 /\ adaptation_enabled
        THEN LET improvement ==
                   Min(200, (PerformanceScale - infos[name].performance) \div 2)
             IN [infos[name] EXCEPT !.performance =
                    Min(PerformanceScale, @ + improvement)]
        ELSE infos[name]]

\* the test of line 146
scan_due(frame) == frame % ScanPeriod = 0

\* _adapt_and_improve (adaptation_enabled is True); _analyze_performance
\* only prints
adapt_and_improve(infos, frame) ==
    IF scan_due(frame) THEN optimize_systems(infos, TRUE) ELSE infos

unchanged_engine_except_threads ==
    UNCHANGED <<state, systems, system_info, last_frame_time, current_frame,
                performance_metrics, stop_called, since_scan>>

\* a variant of start without the test of line 66
start_unguarded ==
    /\ state' = "RUNNING"
    /\ last_frame_time' = now
    /\ current_frame' = 0
    /\ threads' = Append(threads, Thread("while"))
    /\ tick_log' = Append(tick_log, <<>>)
    /\ elapsed' = Append(elapsed, [tick |-> 0, paused |-> 0])
    /\ stop_called' = Append(stop_called, FALSE)
    /\ since_scan' = -1
    /\ UNCHANGED <<systems, system_info, performance_metrics>>
    /\ UNCHANGED imp_vars

\* start()
start ==
    /\ IF state # "STOPPED"
       THEN UNCHANGED eng_vars
       ELSE /\ state' = "RUNNING"
            /\ last_frame_time' = now
            /\ current_frame' = 0
            /\ threads' = Append(threads, Thread("while"))
            /\ tick_log' = Append(tick_log, <<>>)
            /\ elapsed' = Append(elapsed, [tick |-> 0, paused |-> 0])
            /\ stop_called' = Append(stop_called, FALSE)
            /\ since_scan' = -1
            /\ UNCHANGED <<systems, system_info, performance_metrics>>
    /\ UNCHANGED imp_vars

\* stop()
stop ==
    /\ state' = "STOPPED"
    /\ stop_called' = [t \in DOMAIN stop_called |-> TRUE]
    /\ UNCHANGED since_scan
    /\ UNCHANGED <<systems, system_info, last_frame_time, current_frame,
                   performance_metrics, threads, tick_log, elapsed>>
    /\ UNCHANGED imp_vars

\* pause()
pause ==
    /\ state' = IF state = "RUNNING" THEN "PAUSED" ELSE state
    /\ UNCHANGED <<systems, system_info, last_frame_time, current_frame,
                   performance_metrics, threads, tick_log, elapsed,
                   stop_called, since_scan>>
    /\ UNCHANGED imp_vars

\* resume()
resume ==
    /\ state' = IF state = "PAUSED" THEN "RUNNING" ELSE state
    /\ last_frame_time' = IF state = "PAUSED" THEN now ELSE last_frame_time
    /\ UNCHANGED <<systems, system_info, current_frame, performance_metrics,
                   threads, tick_log, elapsed, stop_called, since_scan>>
    /\ UNCHANGED imp_vars

\* a variant of start_time_of: a tick is timed from the reference that
\* start() and resume() set
start_time_of_reference(clock, reference) == reference

\* line 102: start_time = time.time()
start_time_of(clock, reference) == clock

\* line 100: while self.state != EngineState.STOPPED
loop_test(t) ==
    /\ threads[t].pc = "while"
    /\ threads' = [threads EXCEPT ![t].pc =
                     IF state # "STOPPED" THEN "if" ELSE "done"]
    /\ unchanged_engine_except_threads
    /\ UNCHANGED <<tick_log, elapsed, imp_vars>>

\* line 101: if self.state == EngineState.RUNNING, and line 102 after it;
\* otherwise the sleep of line 129
running_test(t) ==
    /\ threads[t].pc = "if"
    /\ IF state = "RUNNING"
       THEN /\ threads' = [threads EXCEPT ![t] =
                  [pc |-> IF systems = <<>> THEN "adapt" ELSE "update",
                   index |-> 1,
                   start_time |-> start_time_of(now, last_frame_time),
                   frame_duration |-> 0]]
            /\ tick_log' = [tick_log EXCEPT ![t] = <<>>]
            /\ elapsed' = [elapsed EXCEPT ![t].tick = 0]
       ELSE /\ threads' = [threads EXCEPT ![t].pc = "while"]
            /\ UNCHANGED <<tick_log, elapsed>>
    /\ unchanged_engine_except_threads
    /\ UNCHANGED imp_vars

\* one turn of the for loop of _update_systems: system.update(frame_time)
\* returns or raises (every registered system has an update method)
update_registered(t, raised) ==
    /\ threads[t].pc = "update"
    /\ LET name == systems[threads[t].index]
           next == next_index(threads[t].index, raised, Len(systems))
       IN /\ system_info' = [system_info EXCEPT ![name] =
                                info_after_update(@, raised)]
          /\ threads' = [threads EXCEPT
                ![t].index = next,
                ![t].pc = IF next > Len(systems) THEN "adapt" ELSE "update"]
          /\ tick_log' = [tick_log EXCEPT ![t] =
                Append(@, [system |-> name, raised |-> raised,
                           delta_time |->
                              delta_time(frame_time,
                                         now - threads[t].start_time)])]
    /\ UNCHANGED <<state, systems, last_frame_time, current_frame,
                   performance_metrics, elapsed, stop_called, since_scan>>

\* the system updated is not the SelfImprovementSystem of this model
update_system(t, raised) ==
    /\ update_registered(t, raised)
    /\ UNCHANGED imp_vars

\* the system updated is the SelfImprovementSystem (an EngineSystem,
\* registered under this name): its update() is the one above
improvement_name == "self_improvement"

update_improvement_system(t, random_success) ==
    /\ threads[t].pc = "update"
    /\ systems[threads[t].index] = improvement_name
    /\ update_registered(t, update_raises)
    /\ update_improvement(random_success, TRUE)

\* lines 108-113: _adapt_and_improve, then the frame's duration
adapt(t) ==
    /\ threads[t].pc = "adapt"
    /\ system_info' = adapt_and_improve(system_info, current_frame)
    /\ since_scan' = IF scan_due(current_frame) THEN 0
                     ELSE IF since_scan < 0 THEN since_scan
                     ELSE since_scan + 1
    /\ threads' = [threads EXCEPT ![t].pc = "store",
                                  ![t].frame_duration = now - threads[t].start_time]
    /\ UNCHANGED <<state, systems, last_frame_time, current_frame,
                   performance_metrics, tick_log, elapsed, stop_called>>
    /\ UNCHANGED imp_vars

\* lines 114-126: the frame counter and the frame's metrics, taken as one
\* step; fps is kept as the duration it is the inverse of (0 when the
\* duration is 0)
store_frame(t) ==
    /\ threads[t].pc = "store"
    /\ current_frame' = current_frame + 1
    /\ performance_metrics' =
          [frame \in DOMAIN performance_metrics \cup {current_frame + 1} |->
              IF frame = current_frame + 1
              THEN [frame_time |-> threads[t].frame_duration,
                    frame_number |-> current_frame + 1]
              ELSE performance_metrics[frame]]
    /\ threads' = [threads EXCEPT ![t].pc = "while"]
    /\ UNCHANGED <<state, systems, system_info, last_frame_time, tick_log,
                   elapsed, stop_called, since_scan>>
    /\ UNCHANGED imp_vars

\* __init__ and one register_system call per name
InitEngine(names) ==
    /\ state = "STOPPED"
    /\ systems = names
    /\ system_info = [name \in {names[i] : i \in 1..Len(names)} |->
                         SystemInfo("initialized", PerformanceScale)]
    /\ last_frame_time = 0
    /\ current_frame = 0
    /\ performance_metrics = <<>>
    /\ threads = <<>>
    /\ tick_log = <<>>
    /\ elapsed = <<>>
    /\ stop_called = <<>>
    /\ since_scan = -1

-----------------------------------------------------------------------------
(* Initial states and inputs *)

\* n copies of one metric: the history after n identical record calls
Block(metric, n) == [i \in 1..n |-> metric]

Low(system) == PerformanceMetric(system, "frame_time", 4, 10)      \* 0.4
Medium(system) == PerformanceMetric(system, "frame_time", 6, 10)   \* 0.6
AtThreshold(system) == PerformanceMetric(system, "frame_time", 8, 10) \* 0.8
Good(system) == PerformanceMetric(system, "frame_time", 20, 10)    \* 2.0
\* a metric recorded with target 0
ZeroTarget(system) == PerformanceMetric(system, "frame_time", 4, 0)
\* ratios that are binary fractions: their sums and means are exact in
\* floating point too
Quarter(system) == PerformanceMetric(system, "frame_time", 5, 20)  \* 0.25
Half(system) == PerformanceMetric(system, "frame_time", 10, 20)    \* 0.5
Full(system) == PerformanceMetric(system, "frame_time", 20, 20)    \* 1.0

DefaultSettings(history_size) ==
    [adaptation_interval |-> AdaptationInterval,
     performance_history_size |-> history_size,
     optimization_threshold |-> OptimizationThreshold,
     enable_autonomous_optimization |-> TRUE]

\* SelfImprovementSystem.__init__
InitImprovement(history_size, history) ==
    /\ settings = DefaultSettings(history_size)
    /\ stats = [learning_cycles |-> 0, optimizations_applied |-> 0,
                failed_optimizations |-> 0]
    /\ performance_history = history
    /\ performance_trends = <<>>
    /\ system_baselines = <<>>
    /\ optimization_strategies = DefaultStrategies
    /\ optimization_queue = <<>>
    /\ improvement_suggestions = <<>>
    /\ last_adaptation_time = 0
    /\ now = StartTime
    /\ recorded = history
    /\ record_calls = 0
    /\ enqueued = <<>>
    /\ applied = <<>>
    /\ last_analysis = [samples |-> 0, raised |-> FALSE, time |-> 0,
                        overall_performance |-> <<RatioScale, 1>>,
                        bottlenecks |-> <<>>]

\* __init__, followed by the record calls that built `history`; the engine
\* is constructed and left alone
InitWith(history_size, history) ==
    /\ InitImprovement(history_size, history)
    /\ InitEngine(<<>>)

Record(metrics, limit) ==
    \E m \in metrics :
       /\ record_calls < limit
       /\ record_performance_metric(m.system_name, m.metric_name,
                                    m.value, m.target)

Update == \E random_success \in BOOLEAN : update(random_success, TRUE)

UpdateUnlogged == \E random_success \in BOOLEAN : update(random_success, FALSE)

Clear == clear_performance_history

-----------------------------------------------------------------------------
(* The metric store on its own: a small capacity, every kind of metric *)

StoreMetrics == {Low("renderer"), Good("renderer"), Low("physics")}

InitStore == InitWith(StoreSize, <<>>)

NextStore ==
    \/ Record(StoreMetrics, MaxRecords)
    \/ Clear
    \/ Update
    \/ advance_time(1, MaxTime)

SpecStore == InitStore /\ [][NextStore]_vars
-----------------------------------------------------------------------------
(* The metric store written by a thread of its own while the scheduler's   *)
(* thread calls update()                                                   *)

RecordAppend(metrics, limit) ==
    \E m \in metrics :
       /\ record_calls < limit
       /\ record_append(m.system_name, m.metric_name, m.value, m.target)

InitConcurrent == InitWith(StoreSize, <<>>)

NextConcurrent ==
    \/ RecordAppend(StoreMetrics, MaxRecords)
    \/ record_trim
    \/ Update
    \/ advance_time(1, MaxTime)

SpecConcurrent == InitConcurrent /\ [][NextConcurrent]_vars

-----------------------------------------------------------------------------
(* Healthy runs: every metric ever recorded has value/target >= 0.8 *)

HealthyMetrics == {AtThreshold("renderer"), Good("renderer"), AtThreshold("physics")}

HealthyPrefills ==
    {<<>>} \cup {Block(m, PrefillLen) : m \in {AtThreshold("renderer"), Good("physics")}}

InitHealthy == \E history \in HealthyPrefills : InitWith(HistorySize, history)

NextHealthy ==
    \/ Record(HealthyMetrics, MaxRecords)
    \/ Clear
    \/ Update
    \/ advance_time(1, MaxTime)

SpecHealthy == InitHealthy /\ [][NextHealthy]_vars

-----------------------------------------------------------------------------
(* Adaptation runs: bottlenecked subsystems, with and without a strategy *)

AdaptMetrics == {Low("renderer"), Low("physics"), Low("engine"), Good("physics")}

AdaptPrefills ==
    LET half == PrefillLen \div 2
    IN { Block(Low("renderer"), PrefillLen),
         Block(Low("renderer"), half) \o Block(Low("physics"), PrefillLen - half),
         Block(Low("engine"), half) \o Block(Medium("renderer"), PrefillLen - half) }

InitAdapt == \E history \in AdaptPrefills : InitWith(HistorySize, history)

NextAdapt ==
    \/ Record(AdaptMetrics, AdaptRecords)
    \/ Update
    \/ advance_time(AdaptationInterval + 1, AdaptTime)

SpecAdapt == InitAdapt /\ [][NextAdapt]_vars

-----------------------------------------------------------------------------
(* Registry runs: strategies are added while the adaptation cycle runs *)

AddedNames == {"rendering_quality_adjustment", "texture_streaming"}

Add(names, limit) ==
    \E name \in names :
       /\ Len(optimization_strategies) < limit
       /\ add_optimization_strategy(name)

InitRegistry == InitWith(HistorySize, Block(Low("renderer"), PrefillLen))

NextRegistry ==
    \/ Add(AddedNames, MaxStrategies)
    \/ Record({Low("physics")}, AdaptRecords)
    \/ Update
    \/ advance_time(AdaptationInterval + 1, AdaptTime)

SpecRegistry == InitRegistry /\ [][NextRegistry]_vars

-----------------------------------------------------------------------------
(* Runs with full windows: histories of about a hundred samples, on either *)
(* side of the 100 that the baselines need and that the analysis reads     *)

WindowMetrics == {Low("renderer")}

WindowPrefills ==
    LET half == AnalysisWindow \div 2
    IN { Block(Low("renderer"), BaselineMinSamples - 1),
         Block(Low("renderer"), BaselineWindow + 1),
         Block(Good("renderer"), BaselineWindow + 1),
         <<Good("engine")>> \o Block(Medium("physics"), AnalysisWindow - half)
                           \o Block(Low("renderer"), half) }

InitWindow == \E history \in WindowPrefills : InitWith(WindowHistory, history)

NextWindow ==
    \/ Record(WindowMetrics, WindowRecords)
    \/ Clear
    \/ Update
    \/ advance_time(AdaptationInterval + 1, AdaptTime)

SpecWindow == InitWindow /\ [][NextWindow]_vars

-----------------------------------------------------------------------------
(* Trend runs: full windows of good samples followed by low samples and    *)
(* by a sample whose target is 0                                            *)

TrendMetrics == {Low("renderer"), ZeroTarget("renderer")}

InitTrend == InitWith(WindowHistory, Block(Good("renderer"), BaselineWindow + 1))

\* update() while fewer than limit cycles were counted: a cycle that raises
\* is due again at once, and counted again
UpdateWithin(limit) == stats.learning_cycles < limit /\ Update

NextTrend ==
    \/ Record(TrendMetrics, WindowRecords)
    \/ Clear
    \/ UpdateWithin(TrendCycles)
    \/ advance_time(AdaptationInterval + 1, AdaptTime)

SpecTrend == InitTrend /\ [][NextTrend]_vars

-----------------------------------------------------------------------------
(* Severity runs: per-system means on, and on either side of, 0.5 and 0.7 *)

SeverityMetrics == {Half("renderer"), Full("renderer"), Quarter("physics")}

SeverityPrefills ==
    LET rest == PrefillLen - 3
    IN { Block(Half("physics"), rest) \o Block(Half("renderer"), 3),
         Block(Half("renderer"), rest) \o Block(Full("renderer"), 3),
         Block(Half("renderer"), PrefillLen) }

InitSeverity == \E history \in SeverityPrefills : InitWith(HistorySize, history)

NextSeverity ==
    \/ Record(SeverityMetrics, AdaptRecords)
    \/ Update
    \/ advance_time(AdaptationInterval + 1, AdaptTime)

SpecSeverity == InitSeverity /\ [][NextSeverity]_vars

-----------------------------------------------------------------------------
(* Effectiveness runs: one bottlenecked subsystem, many cycles *)

InitEffect ==
    InitWith(HistorySize, Block(Low("renderer"), MinAnalysisSamples))

NextEffect ==
    \/ Record({Good("renderer")}, 1)
    \/ Clear
    \/ UpdateUnlogged
    \/ advance_time(AdaptationInterval + 1, LongTime)

SpecEffect == InitEffect /\ [][NextEffect]_vars

\* fewer cycles, and the history changes between them
NextTrajectory ==
    \/ Record({Good("renderer")}, 1)
    \/ Clear
    \/ Update
    \/ advance_time(AdaptationInterval + 1, TrajectoryTime)

SpecTrajectory == InitEffect /\ [][NextTrajectory]_vars

-----------------------------------------------------------------------------
(* Engine runs: three registered systems, whose updates may raise *)

RegisteredSystems == <<"renderer", "physics", "networking">>

InitEngineRun ==
    /\ InitImprovement(HistorySize, <<>>)
    /\ InitEngine(RegisteredSystems)

Threads == 1..Len(threads)

\* start() is called while fewer than `limit` threads have been created
Start(limit) == Len(threads) < limit /\ start

\* a thread tests the state; it finds it Running only while fewer than
\* `limit` frames have been counted
Test(t, limit) ==
    (state = "RUNNING" => current_frame < limit) /\ running_test(t)

NextEngine ==
    \/ Start(MaxThreads)
    \/ stop
    \/ pause
    \/ resume
    \/ \E t \in Threads : loop_test(t)
    \/ \E t \in Threads : Test(t, MaxFrames)
    \/ \E t \in Threads, raised \in BOOLEAN : update_system(t, raised)
    \/ \E t \in Threads : adapt(t)
    \/ \E t \in Threads : store_frame(t)

SpecEngine == InitEngineRun /\ [][NextEngine]_vars

-----------------------------------------------------------------------------
(* Timed engine runs: the clock moves while the engine runs and is paused *)

TimedSystems == <<"renderer", "physics">>

InitTiming ==
    /\ InitImprovement(HistorySize, <<>>)
    /\ InitEngine(TimedSystems)

NextTiming ==
    \/ Start(MaxThreads)
    \/ stop
    \/ pause
    \/ resume
    \/ \E t \in Threads : loop_test(t)
    \/ \E t \in Threads : Test(t, MaxFrames)
    \/ \E t \in Threads : update_system(t, FALSE)
    \/ \E t \in Threads : adapt(t)
    \/ \E t \in Threads : store_frame(t)
    \/ advance_time(1, TimingTime)

SpecTiming == InitTiming /\ [][NextTiming]_vars

-----------------------------------------------------------------------------
(* Restarts: the engine is stopped and started again while it updates a   *)
(* SelfImprovementSystem that has two bottlenecked subsystems to work on  *)

RestartSystems == <<improvement_name>>

RestartHistory ==
    LET half == MinAnalysisSamples \div 2
    IN Block(Low("renderer"), half)
          \o Block(Low("physics"), MinAnalysisSamples - half)

InitRestart ==
    /\ InitImprovement(HistorySize, RestartHistory)
    /\ InitEngine(RestartSystems)

NextRestart ==
    \/ Start(RestartThreads)
    \/ stop
    \/ pause
    \/ resume
    \/ \E t \in Threads : loop_test(t)
    \/ \E t \in Threads : Test(t, MaxFrames)
    \/ \E t \in Threads, random_success \in BOOLEAN :
          update_improvement_system(t, random_success)
    \/ \E t \in Threads : adapt(t)
    \/ \E t \in Threads : store_frame(t)

SpecRestart == InitRestart /\ [][NextRestart]_vars

-----------------------------------------------------------------------------
(* Runs with a raising cycle: the engine ticks the registered             *)
(* SelfImprovementSystem while a metric with target 0 is recorded         *)

ContainSystems == <<improvement_name>>

InitContain ==
    /\ InitImprovement(HistorySize, RestartHistory)
    /\ InitEngine(ContainSystems)

NextContain ==
    \/ Start(MaxThreads)
    \/ \E t \in Threads : loop_test(t)
    \/ \E t \in Threads : Test(t, ContainFrames)
    \/ \E t \in Threads, random_success \in BOOLEAN :
          update_improvement_system(t, random_success)
    \/ \E t \in Threads : adapt(t)
    \/ \E t \in Threads : store_frame(t)
    \/ Record({ZeroTarget("renderer")}, ContainRecords)
    \/ advance_time(AdaptationInterval + 1, AdaptTime)

SpecContain == InitContain /\ [][NextContain]_vars

-----------------------------------------------------------------------------
(* Long runs: one registered system, more frames than five seconds hold *)

LongRunSystems == <<"renderer">>

InitLongRun ==
    /\ InitImprovement(HistorySize, <<>>)
    /\ InitEngine(LongRunSystems)

NextLongRun ==
    \/ Start(MaxThreads)
    \/ stop
    \/ pause
    \/ resume
    \/ \E t \in Threads : loop_test(t)
    \/ \E t \in Threads : Test(t, LongFrames)
    \/ \E t \in Threads : update_system(t, FALSE)
    \/ \E t \in Threads : adapt(t)
    \/ \E t \in Threads : store_frame(t)

SpecLongRun == InitLongRun /\ [][NextLongRun]_vars

-----------------------------------------------------------------------------
(* The claims *)

\* C1: after any sequence of record_performance_metric calls the length of
\* performance_history never exceeds settings.performance_history_size.
C1_BoundedHistory ==
    Len(performance_history) <= settings.performance_history_size

\* more metrics were recorded than the history holds, and it is full
C1_Witness ==
    /\ Len(recorded) > settings.performance_history_size
    /\ Len(performance_history) = settings.performance_history_size

\* the last min(k, capacity) of the k metrics of `log`, in their order
C2_MostRecent(log, capacity) ==
    [i \in 1..Min(Len(log), capacity) |->
        log[Len(log) - Min(Len(log), capacity) + i]]

\* C2: performance_history is, in record order, exactly the most recent
\* min(k, capacity) of the k metrics recorded since the last clear; no
\* operation reorders or changes a stored metric.
C2_MostRecentInOrder ==
    performance_history =
        C2_MostRecent(recorded, settings.performance_history_size)

\* an overflow has evicted a metric that differs from the oldest one kept
C2_Witness ==
    /\ Len(recorded) > settings.performance_history_size
    /\ performance_history # <<>>
    /\ recorded[1] # performance_history[1]
    /\ stats.learning_cycles > 0

\* C3: if every recorded metric has value/target >= 0.8, the optimization
\* queue stays empty over any number of update() calls and adaptation
\* cycles: no request is ever enqueued.
C3_HealthyNeverEnqueues ==
    /\ optimization_queue = <<>>
    /\ enqueued = <<>>

\* a second cycle has analysed at least ten healthy samples whose overall
\* performance is exactly the threshold 0.8
C3_Witness ==
    /\ stats.learning_cycles >= 2
    /\ last_analysis.samples >= MinAnalysisSamples
    /\ last_analysis.overall_performance[1]
         = OptimizationThreshold * last_analysis.overall_performance[2]
    /\ \A i \in 1..Len(recorded) : Ratio(recorded[i]) >= 800

C5_EffectivenessInRange ==
    \A i \in 1..Len(optimization_strategies) :
        /\ optimization_strategies[i].effectiveness >= 0
        /\ optimization_strategies[i].effectiveness <= 100

\* a strategy is at 1.0 after eleven attempts: a clamp has acted
C5_Witness ==
    \E i \in 1..Len(optimization_strategies) :
        /\ optimization_strategies[i].effectiveness = 100
        /\ optimization_strategies[i].application_count >= 11

\* the draws of the attempts made on strategy i, in order
C6_Draws(i) ==
    LET F[k \in 0..Len(applied)] ==
          IF k = 0 THEN <<>>
          ELSE IF applied[k].request.strategy = i
               THEN Append(F[k-1], applied[k].random_success) ELSE F[k-1]
    IN F[Len(applied)]

\* the effectiveness the claim gives after the draws, from e
RECURSIVE C6_Replay(_, _)
C6_Replay(e, draws) ==
    IF draws = <<>> THEN e
    ELSE C6_Replay(IF draws[1] THEN Min(100, e + 10) ELSE Max(0, e - 5),
                   Tail(draws))

C6_Sequence == <<TRUE, TRUE, FALSE, TRUE, TRUE>>

C6_Trajectory == <<10, 20, 15, 25, 35>>

\* C6: an attempt sets the effectiveness to min(1.0, e + 0.1) on success and
\* to max(0.0, e - 0.05) on failure and nothing else changes it; from 0 the
\* draws success, success, failure, success, success give 0.1, 0.2, 0.15,
\* 0.25, 0.35.
C6_EffectivenessSteps ==
    \A i \in 1..Len(optimization_strategies) :
        /\ optimization_strategies[i].effectiveness = C6_Replay(0, C6_Draws(i))
        /\ \A k \in 1..5 :
              C6_Draws(i) = SubSeq(C6_Sequence, 1, k) =>
                 optimization_strategies[i].effectiveness = C6_Trajectory[k]

\* the five draws of the claim have been applied to the renderer's strategy
C6_Witness ==
    /\ C6_Draws(1) = C6_Sequence
    /\ optimization_strategies[1].effectiveness = 35
    /\ recorded = <<>>

\* C7: when an attempt fails (the one that lowers effectiveness), the
\* failure is counted and the success is not: failed_optimizations grows by
\* 1 while optimizations_applied, the strategy's application_count and its
\* last_applied stay unchanged, and the strategy stays registered.
C7_FailureCounted ==
    [][ (Len(applied') = Len(applied) + 1
         /\ ~applied'[Len(applied')].random_success) =>
          LET i == applied'[Len(applied')].request.strategy
          IN /\ stats'.failed_optimizations = stats.failed_optimizations + 1
             /\ stats'.optimizations_applied = stats.optimizations_applied
             /\ optimization_strategies'[i].application_count
                  = optimization_strategies[i].application_count
             /\ optimization_strategies'[i].last_applied
                  = optimization_strategies[i].last_applied
             /\ optimization_strategies'[i].name
                  = optimization_strategies[i].name ]_vars

\* the requests one step has appended to the queue
C8_New == SubSeq(enqueued', Len(enqueued) + 1, Len(enqueued'))

C8_Count(requests, system) ==
    Cardinality({k \in 1..Len(requests) : requests[k].system = system})

\* the samples of the system among the last 100 metrics
C8_Samples(system) ==
    LET first == Max(1, Len(performance_history) - 99)
    IN {k \in first..Len(performance_history) :
           performance_history[k].system_name = system}

RECURSIVE C8_Sum(_)
C8_Sum(samples) ==
    IF samples = {} THEN 0
    ELSE LET k == CHOOSE k \in samples : TRUE
         IN Ratio(performance_history[k]) + C8_Sum(samples \ {k})

\* the system's mean ratio over the window is below 0.7
C8_Bottleneck(system) ==
    /\ Len(performance_history) >= 10
    /\ C8_Samples(system) # {}
    /\ C8_Sum(C8_Samples(system)) * 10 < 7 * 1000 * Cardinality(C8_Samples(system))

C8_Mapped(system) ==
    system \in {"renderer", "physics", "ai_behavior", "content_generator",
                "networking"}

C8_Systems ==
    {performance_history[k].system_name : k \in 1..Len(performance_history)}
      \cup {C8_New[k].system : k \in 1..Len(C8_New)}

\* C8: in a cycle whose overall performance is below optimization_threshold,
\* exactly one request is enqueued for each bottleneck subsystem that has a
\* mapped strategy, however many samples it has, and none for any other.
C8_OnePerBottleneck ==
    [][ (/\ stats'.learning_cycles = stats.learning_cycles + 1
         /\ below_threshold(last_analysis'.overall_performance,
                            settings.optimization_threshold)) =>
          \A system \in C8_Systems :
             C8_Count(C8_New, system) =
                IF C8_Bottleneck(system) /\ C8_Mapped(system) THEN 1 ELSE 0 ]_vars

\* one cycle found three bottlenecks, one of them without a strategy, and
\* enqueued two requests
C8_Witness ==
    /\ stats.learning_cycles = 1
    /\ Len(last_analysis.bottlenecks) = 3
    /\ Len(enqueued) = 2
    /\ enqueued[1].system # enqueued[2].system

\* the requests applied so far, in the order they were popped
C9_Applied == [k \in 1..Len(applied) |-> applied[k].request]

\* C9: the queue is strictly FIFO with one consumer: requests are applied in
\* the order they were enqueued, each removed and applied exactly once.
C9_Fifo ==
    /\ enqueued = C9_Applied \o optimization_queue
    /\ stats.optimizations_applied + stats.failed_optimizations = Len(applied)

\* two requests of different subsystems waited together and both were applied
C9_Witness ==
    /\ Len(applied) >= 3
    /\ applied[1].request.system # applied[2].request.system
    /\ Len(optimization_queue) >= 1

\* the systems whose update() the thread has called in its current tick
C10_Called(t) == [k \in 1..Len(tick_log[t]) |-> tick_log[t][k].system]

\* a thread that is past _update_systems has called every registered
\* system, in registration order, and each one that raised is marked
C10_TickSound(t) ==
    /\ threads[t].pc \in {"adapt", "store"} => C10_Called(t) = systems
    /\ \A k \in 1..Len(tick_log[t]) :
          tick_log[t][k].raised =>
             system_info[tick_log[t][k].system].status = "error"

\* the step in which an update() of thread t raised
C10_Raised(t) ==
    /\ Len(tick_log'[t]) = Len(tick_log[t]) + 1
    /\ tick_log'[t][Len(tick_log'[t])].raised

\* C10: when a subsystem's update() raises during a tick the exception does
\* not leave the tick: the subsystem is marked errored, every subsystem
\* registered after it is still updated in the same tick, and the scheduler
\* goes on with the engine state unchanged.
C10_FailureIsolated ==
    [][ \A t \in 1..Len(threads) :
          /\ C10_TickSound(t)'
          /\ C10_Raised(t) =>
                /\ state' = state
                /\ threads'[t].pc \in {"update", "adapt"}
                /\ threads'[t].index = threads[t].index + 1 ]_vars

\* the first system raised in the first tick; the thread has finished a
\* second tick, in which nothing raised, and the engine is still Running
C10_Witness ==
    /\ state = "RUNNING"
    /\ current_frame = 2
    /\ system_info[systems[1]].status = "error"
    /\ \E t \in 1..Len(threads) :
          /\ threads[t].pc = "while"
          /\ C10_Called(t) = systems
          /\ \A k \in 1..Len(tick_log[t]) : ~tick_log[t][k].raised

\* C11: a subsystem marked errored stays errored only until its update() next
\* succeeds: once a thread is past _update_systems, no subsystem whose
\* update() returned without raising in that tick has the status "error".
C11_RecoversOnSuccess ==
    \A t \in 1..Len(threads) :
       threads[t].pc \in {"adapt", "store"} =>
          \A k \in 1..Len(tick_log[t]) :
             ~tick_log[t][k].raised =>
                system_info[tick_log[t][k].system].status # "error"

\* the step in which thread t invokes a subsystem's update()
C15_Invoked(t) == Len(tick_log'[t]) = Len(tick_log[t]) + 1

\* C15: while the engine state is Paused no subsystem update() is invoked
\* and no per-frame metric is recorded, whatever the interleaving of pause()
\* with the scheduler thread, and a thread that is in its loop stays in it.
C15_PausedIsQuiet ==
    [][ state = "PAUSED" =>
          /\ \A t \in 1..Len(threads) : ~C15_Invoked(t)
          /\ performance_metrics' = performance_metrics
          /\ \A t \in 1..Len(threads) :
                threads[t].pc # "done" => threads'[t].pc # "done" ]_vars

\* the step in which thread t stores the metrics of the frame it has timed
C16_Stores(t) == threads[t].pc = "store" /\ threads'[t].pc = "while"

\* C16: time spent polling in Paused is never charged to a tick: the duration
\* a thread computes, and then records under the frame's number, is exactly
\* the clock time that passed between that tick's own start and end, so the
\* first tick after resume() records nothing of the pause.
C16_OwnTimeOnly ==
    [][ \A t \in 1..Len(threads) :
          /\ threads[t].pc = "store" =>
                threads[t].frame_duration = elapsed[t].tick
          /\ C16_Stores(t) =>
                performance_metrics'[current_frame'].frame_time
                   = elapsed[t].tick ]_vars

\* a thread polled through a pause that lasted a clock unit; after resume()
\* it has run a whole tick, which took no time and is recorded with none
C16_Witness ==
    /\ state = "RUNNING"
    /\ last_frame_time > StartTime
    /\ current_frame >= 1
    /\ \E t \in 1..Len(threads) :
          /\ threads[t].pc = "while"
          /\ elapsed[t].paused >= 1
          /\ threads[t].start_time >= last_frame_time
          /\ elapsed[t].tick = 0
          /\ performance_metrics[current_frame].frame_time = 0

\* C17: in every tick each registered subsystem's update is invoked exactly
\* once, in registration order (the k-th call of a tick is to the k-th
\* registered subsystem, and a tick past _update_systems has made one call
\* per subsystem), always with dt = 1 / frame_rate.
C17_FixedStepInOrder ==
    \A t \in 1..Len(threads) :
       LET log == tick_log[t]
       IN /\ Len(log) <= Len(systems)
          /\ \A k \in 1..Len(log) :
                /\ log[k].system = systems[k]
                /\ log[k].delta_time[1] * FrameRate = log[k].delta_time[2]
          /\ threads[t].pc = "update" => Len(log) = threads[t].index - 1
          /\ threads[t].pc \in {"adapt", "store"} => Len(log) = Len(systems)
          /\ threads[t].pc \in {"while", "if", "done"} =>
                Len(log) \in {0, Len(systems)}

\* a clock unit after its tick began, a thread has updated every registered
\* subsystem of its second tick and is about to store the frame
C17_Witness ==
    /\ current_frame = 1
    /\ \E t \in 1..Len(threads) :
          /\ threads[t].pc = "store"
          /\ Len(tick_log[t]) = Len(systems)
          /\ now > threads[t].start_time

\* the threads that have not left _main_loop
C12_InLoop == {t \in 1..Len(threads) : threads[t].pc # "done"}

\* C12: for every interleaving of start(), stop(), pause() and resume() with
\* the scheduler thread, at most one thread is executing the tick loop at
\* any time, so no two threads are inside _update_systems together.
C12_OneScheduler ==
    /\ Cardinality(C12_InLoop) <= 1
    /\ Cardinality({t \in C12_InLoop : threads[t].pc = "update"}) <= 1

\* the step in which thread t begins a tick
C13_Begins(t) ==
    threads[t].pc = "if" /\ threads'[t].pc \in {"update", "adapt"}

\* C13: after stop() is called, the scheduler thread that was running ends
\* at most the tick it is in and leaves its loop without beginning another
\* tick, whatever calls follow: a thread begins no tick once stop() has been
\* called in its lifetime.
C13_NoTickAfterStop ==
    [][ \A t \in 1..Len(threads) : stop_called[t] => ~C13_Begins(t) ]_vars

\* C14: stopping the scheduler discards all queued optimization requests:
\* after stop() the optimization queue is empty (so that, requests being
\* applied from the queue only, none enqueued before a stop is applied
\* after a restart).
C14_StopDiscards ==
    [][ stop => optimization_queue' = <<>> ]_vars

\* C18: the scheduler's per-tick timing history is bounded: after any number
\* of ticks it holds at most 300 entries, the most recent ones.
C18_BoundedTimings ==
    /\ Cardinality(DOMAIN performance_metrics) <= RecentFrames
    /\ \A frame \in DOMAIN performance_metrics :
          frame > current_frame - RecentFrames

\* C19: every completed tick emits exactly one PerformanceMetric with
\* subsystem "engine", metric "frame_time", value = the tick's duration and
\* target = 1 / rate into the metric store that the adaptation cycle
\* analyses.
C19_EmitsFrameTime ==
    [][ \A t \in 1..Len(threads) :
          (threads[t].pc = "store" /\ threads'[t].pc = "while") =>
             /\ Len(recorded') = Len(recorded) + 1
             /\ performance_history' # <<>>
             /\ performance_history'[Len(performance_history')]
                   = recorded'[Len(recorded')]
             /\ LET metric == recorded'[Len(recorded')]
                IN /\ metric.system_name = "engine"
                   /\ metric.metric_name = "frame_time"
                   /\ metric.value = threads[t].frame_duration
                   /\ metric.target = frame_time ]_vars

\* the samples of the system among the last 100 metrics
C20_Samples(system) ==
    LET first == Max(1, Len(performance_history) - 99)
    IN {k \in first..Len(performance_history) :
           performance_history[k].system_name = system}

RECURSIVE C20_Sum(_)
C20_Sum(samples) ==
    IF samples = {} THEN 0
    ELSE LET k == CHOOSE k \in samples : TRUE
         IN Ratio(performance_history[k]) + C20_Sum(samples \ {k})

\* the system's mean ratio over the window is below tenths / 10
C20_MeanBelow(system, tenths) ==
    C20_Sum(C20_Samples(system)) * 10
       < tenths * RatioScale * Cardinality(C20_Samples(system))

\* the bottleneck entries that a cycle reports for the system
C20_Reported(analysis, system) ==
    {k \in 1..Len(analysis.bottlenecks) :
        analysis.bottlenecks[k].system = system}

\* C20: a subsystem is reported as a bottleneck exactly when its mean
\* value/target ratio over the analysis window is below 0.7, and its
\* severity is high exactly when that mean is below 0.5 and medium otherwise.
C20_Thresholds ==
    [][ (/\ stats'.learning_cycles = stats.learning_cycles + 1
         /\ Len(performance_history) >= 10) =>
          /\ \A k \in 1..Len(last_analysis'.bottlenecks) :
                C20_Samples(last_analysis'.bottlenecks[k].system) # {}
          /\ \A k \in 1..Len(performance_history) :
                LET system == performance_history[k].system_name
                    reported == C20_Reported(last_analysis', system)
                IN /\ Cardinality(reported) =
                         IF C20_MeanBelow(system, 7) THEN 1 ELSE 0
                   /\ \A r \in reported :
                         last_analysis'.bottlenecks[r].severity =
                            IF C20_MeanBelow(system, 5) THEN "high"
                            ELSE "medium" ]_vars

\* a cycle has analysed ten samples in which the mean of renderer is
\* exactly 0.7 and the mean of physics exactly 0.5: it reported physics
\* alone, as medium
C20_Witness ==
    /\ stats.learning_cycles = 1
    /\ last_analysis.samples = 10
    /\ Len(performance_history) = 10
    /\ C20_Sum(C20_Samples("renderer")) * 10
          = 7 * RatioScale * Cardinality(C20_Samples("renderer"))
    /\ C20_Sum(C20_Samples("physics")) * 10
          = 5 * RatioScale * Cardinality(C20_Samples("physics"))
    /\ C20_Samples("renderer") # {}
    /\ C20_Samples("physics") # {}
    /\ Len(last_analysis.bottlenecks) = 1
    /\ last_analysis.bottlenecks[1].system = "physics"
    /\ last_analysis.bottlenecks[1].severity = "medium"

\* C21: when performance_history holds fewer than 10 samples, analysis
\* returns overall performance 1.0 and no bottleneck, so an adaptation cycle
\* run in that state enqueues nothing.
C21_InsufficientData ==
    [][ (/\ stats'.learning_cycles = stats.learning_cycles + 1
         /\ Len(performance_history) < 10) =>
          /\ last_analysis'.bottlenecks = <<>>
          /\ last_analysis'.overall_performance[1]
                = RatioScale * last_analysis'.overall_performance[2]
          /\ enqueued' = enqueued
          /\ optimization_queue' = optimization_queue ]_vars

\* a cycle has run over nine samples, each with ratio 0.4, and enqueued
\* nothing
C21_Witness ==
    /\ stats.learning_cycles = 1
    /\ last_analysis.samples = 9
    /\ Len(performance_history) = 9
    /\ \A k \in 1..9 : Ratio(performance_history[k]) < BottleneckThreshold
    /\ enqueued = <<>>

C22_Unmapped(system) ==
    system \notin {"renderer", "physics", "ai_behavior", "content_generator",
                   "networking"}

\* the requests one step has appended to the queue
C22_New == SubSeq(enqueued', Len(enqueued) + 1, Len(enqueued'))

\* the strategies that differ after the step
C22_Changed ==
    {i \in 1..Len(optimization_strategies) :
        optimization_strategies'[i] # optimization_strategies[i]}

\* C22: a detected bottleneck whose subsystem has no mapped strategy causes
\* no action: no request for it is enqueued and no strategy is changed (the
\* only strategy that changes in the step is the one of the request the
\* step dequeues), and the other bottlenecks of the same cycle are still
\* given their requests.
C22_UnmappedIsSkipped ==
    [][ (/\ stats'.learning_cycles = stats.learning_cycles + 1
         /\ \E k \in 1..Len(last_analysis'.bottlenecks) :
               C22_Unmapped(last_analysis'.bottlenecks[k].system)) =>
          /\ \A j \in 1..Len(C22_New) : ~C22_Unmapped(C22_New[j].system)
          /\ Len(optimization_strategies') = Len(optimization_strategies)
          /\ \A i \in C22_Changed :
                /\ Len(applied') = Len(applied) + 1
                /\ applied'[Len(applied')].request.strategy = i
          /\ below_threshold(last_analysis'.overall_performance,
                             settings.optimization_threshold) =>
                \A k \in 1..Len(last_analysis'.bottlenecks) :
                   LET system == last_analysis'.bottlenecks[k].system
                   IN ~C22_Unmapped(system) =>
                         \E j \in 1..Len(C22_New) :
                            C22_New[j].system = system ]_vars

\* one cycle found the bottlenecks engine (no strategy) and renderer, and
\* the request for renderer, the only one enqueued, has been applied
C22_Witness ==
    /\ stats.learning_cycles = 1
    /\ Len(last_analysis.bottlenecks) = 2
    /\ last_analysis.bottlenecks[1].system = "engine"
    /\ last_analysis.bottlenecks[2].system = "renderer"
    /\ Len(enqueued) = 1
    /\ enqueued[1].system = "renderer"
    /\ Len(applied) = 1
    /\ optimization_queue = <<>>

\* C23: a detected bottleneck whose subsystem has no mapped strategy is
\* surfaced as a suggestion: after the cycle that detected it, the
\* improvement suggestions contain an entry for that subsystem.
C23_UnmappedIsSuggested ==
    [][ stats'.learning_cycles = stats.learning_cycles + 1 =>
          \A k \in 1..Len(last_analysis'.bottlenecks) :
             LET system == last_analysis'.bottlenecks[k].system
             IN system \notin {"renderer", "physics", "ai_behavior",
                               "content_generator", "networking"} =>
                   \E s \in 1..Len(improvement_suggestions') :
                      improvement_suggestions'[s].system = system ]_vars

\* C24: strategy names are unique within the strategy set in every
\* reachable state, also after add_optimization_strategy.
C24_UniqueNames ==
    \A i, j \in 1..Len(optimization_strategies) :
       optimization_strategies[i].name = optimization_strategies[j].name
          => i = j

\* the engine's tick calls update() of the SelfImprovementSystem
C25_Tick ==
    \E t \in Threads, random_success \in BOOLEAN :
       update_improvement_system(t, random_success)

\* C25: a failed strategy application does not block the queue or later
\* cycles: while the engine ticks in Running, the next tick dequeues the
\* next request as usual, so that every request that enters the queue is
\* eventually applied.  In the form a finite run refutes: every tick that
\* finds a request in the queue applies the request at its head.
C25_NextTickDequeues ==
    [][ (/\ state = "RUNNING"
         /\ optimization_queue # <<>>
         /\ C25_Tick) =>
          /\ Len(applied') = Len(applied) + 1
          /\ applied'[Len(applied')].request = Head(optimization_queue) ]_vars

\* C26: a failure inside one adaptation cycle (analysis over a metric
\* whose target is 0) is contained in that cycle: the scheduler is not
\* halted, and on the ticks that follow the per-tick queue drain still
\* runs: a tick that finds a request in the queue handles one request.
C26_Contained ==
    [][ \A t \in Threads :
          (/\ last_analysis.raised
           /\ threads[t].pc = "update"
           /\ threads'[t] # threads[t]) =>
             /\ threads'[t].pc \in {"update", "adapt"}
             /\ optimization_queue # <<>> =>
                   stats'.optimizations_applied + stats'.failed_optimizations
                      = stats.optimizations_applied
                           + stats.failed_optimizations + 1 ]_vars

C27_Keys(baselines) ==
    {<<baselines[i].system, baselines[i].metric_name>> :
        i \in 1..Len(baselines)}

\* C27: baselines are created or changed only by an adaptation cycle that
\* runs with at least 100 samples in performance_history, and once a
\* baseline exists no operation, clear_performance_history included,
\* removes it or sets it back.
C27_BaselinesPersist ==
    [][ /\ system_baselines' # system_baselines =>
              /\ stats'.learning_cycles = stats.learning_cycles + 1
              /\ Len(performance_history) >= 100
        /\ C27_Keys(system_baselines) \subseteq C27_Keys(system_baselines') ]_vars

\* a first cycle over at least 100 samples has created a baseline, the
\* history has been cleared, and a second cycle over the few samples
\* recorded since has left the baseline in place
C27_Witness ==
    /\ stats.learning_cycles = 2
    /\ last_analysis.samples < 100
    /\ Len(performance_history) < 100
    /\ C27_Keys(system_baselines) = {<<"renderer", "frame_time">>}

\* the metric has been constant for more than 100 consecutive samples
C28_Constant ==
    /\ Len(performance_history) > 100
    /\ \A k \in (Len(performance_history) - 100)..Len(performance_history) :
          performance_history[k]
             = performance_history[Len(performance_history)]

\* the constant value V, in the unit of the baselines
C28_V == performance_history[Len(performance_history)].value * BaselineScale

\* |baseline - V| for the constant metric, where a baseline that does not
\* exist yet counts as the metric's target (the default of line 378)
C28_Distance(baselines) ==
    LET metric == performance_history[Len(performance_history)]
        i == baseline_index(baselines, metric.system_name, metric.metric_name)
        baseline == IF i = 0 THEN metric.target * BaselineScale
                    ELSE baselines[i].value
    IN IF baseline >= C28_V THEN baseline - C28_V ELSE C28_V - baseline

C28_Slack == 5

C30_Window ==
    {k \in 1..Len(performance_history) : k > Len(performance_history) - 100}

C30_Samples(system) ==
    {k \in C30_Window : performance_history[k].system_name = system}

\* the sum of the ratios of a system's samples: every ratio that occurs,
\* times the number of samples that have it
RECURSIVE C30_Weighted(_, _)
C30_Weighted(samples, ratios) ==
    IF ratios = {} THEN 0
    ELSE LET r == CHOOSE r \in ratios : TRUE
         IN r * Cardinality({k \in samples : Ratio(performance_history[k]) = r})
               + C30_Weighted(samples, ratios \ {r})

C30_Sum(system) ==
    C30_Weighted(C30_Samples(system),
                 {Ratio(performance_history[k]) : k \in C30_Samples(system)})

RECURSIVE C30_Counts(_)
C30_Counts(names) ==
    IF names = {} THEN 1
    ELSE LET s == CHOOSE s \in names : TRUE
         IN Cardinality(C30_Samples(s)) * C30_Counts(names \ {s})

\* the sum of the per-system means, over the common denominator
\* C30_Counts(all)
RECURSIVE C30_Means(_, _)
C30_Means(names, all) ==
    IF names = {} THEN 0
    ELSE LET s == CHOOSE s \in names : TRUE
         IN C30_Sum(s) * (C30_Counts(all) \div Cardinality(C30_Samples(s)))
               + C30_Means(names \ {s}, all)

RECURSIVE C30_Gcd(_, _)
C30_Gcd(a, b) == IF b = 0 THEN a ELSE C30_Gcd(b, a % b)

\* a fraction in lowest terms
C30_Lowest(fraction) ==
    LET g == C30_Gcd(fraction[1], fraction[2])
    IN <<fraction[1] \div g, fraction[2] \div g>>

\* C30: the overall performance of a cycle is the unweighted mean of the
\* per-subsystem mean ratios, computed over the last 100 metrics of the
\* history only: older metrics have no influence on the analysis.
C30_MeanOfMeans ==
    [][ (/\ stats'.learning_cycles = stats.learning_cycles + 1
         /\ Len(performance_history) >= 10) =>
          LET names == {performance_history[k].system_name : k \in C30_Window}
          IN C30_Lowest(last_analysis'.overall_performance)
               = C30_Lowest(<<C30_Means(names, names),
                              Cardinality(names) * C30_Counts(names)>>) ]_vars

\* a cycle has analysed 102 metrics: the oldest, of engine with ratio 2.0,
\* is outside the window; the means of physics (0.6) and renderer (0.4)
\* over unequal numbers of samples give 0.5, and both are bottlenecks
C30_Witness ==
    /\ stats.learning_cycles = 1
    /\ last_analysis.samples = 102
    /\ Len(performance_history) = 102
    /\ performance_history[1] = Good("engine")
    /\ Cardinality(C30_Samples("engine")) = 0
    /\ Cardinality(C30_Samples("physics")) # Cardinality(C30_Samples("renderer"))
    /\ C30_Lowest(last_analysis.overall_performance) = <<RatioScale \div 2, 1>>
    /\ Len(last_analysis.bottlenecks) = 2

\* C29: recording from a thread other than the scheduler's may happen
\* while the scheduler reads: the writes are serialized with the reads, so
\* that no reader observes a history longer than its capacity; here the
\* reader is the analysis of a cycle and what it observes is the number of
\* samples it was given.
C29_ReaderWithinCapacity ==
    last_analysis.samples <= settings.performance_history_size

\* C31: an adaptation cycle runs at most once per update() and only when
\* more than adaptation_interval has passed since the time stamped at the
\* previous cycle, so that two consecutive cycles are more than
\* adaptation_interval apart; learning_cycles grows by 1 per cycle.
C31_CyclesApart ==
    [][ /\ stats'.learning_cycles \in {stats.learning_cycles,
                                       stats.learning_cycles + 1}
        /\ stats'.learning_cycles = stats.learning_cycles + 1 =>
              /\ now - last_adaptation_time > settings.adaptation_interval
              /\ stats.learning_cycles >= 1 =>
                    now - last_analysis.time > settings.adaptation_interval
       ]_vars

\* C32: a subsystem's trend sequence never holds more than 100 entries; at
\* the cap the oldest entries are the ones evicted, the rest keep their
\* order and the new ones follow them; update() leaves the trends alone
\* while the history holds fewer than 50 samples.
C32_OldestEvicted(old, new) ==
    \E k \in 0..Len(old) :
       /\ Len(new) >= Len(old) - k
       /\ SubSeq(new, 1, Len(old) - k) = SubSeq(old, k + 1, Len(old))
       /\ k > 0 => Len(new) = 100

C32_TrendsBounded ==
    /\ [](\A i \in 1..Len(performance_trends) :
            Len(performance_trends[i].values) <= 100)
    /\ [][ performance_history' = performance_history =>
            /\ Len(performance_history) < 50 =>
                  performance_trends' = performance_trends
            /\ \A i \in 1..Len(performance_trends) :
                  /\ Len(performance_trends') >= i
                  /\ performance_trends'[i].system = performance_trends[i].system
                  /\ C32_OldestEvicted(performance_trends[i].values,
                                       performance_trends'[i].values)
          ]_vars

C32_Witness ==
    /\ Len(performance_trends) = 1
    /\ Len(performance_trends[1].values) = 100
    /\ performance_trends[1].values[100] = 400
    /\ performance_trends[1].values[99] = 400
    /\ performance_trends[1].values[1] = 2000
    /\ stats.learning_cycles >= 2

\* C33: after an update() with autonomous optimization enabled the
\* suggestion list holds a performance_decline entry for a subsystem exactly
\* when that subsystem has at least 10 trend entries and the mean of its
\* last 5 is below 0.9 times the mean of the 5 before them.
C33_Sum5(values, last) ==
    values[last - 4] + values[last - 3] + values[last - 2]
       + values[last - 1] + values[last]

C33_Declines(values) ==
    /\ Len(values) >= 10
    /\ 10 * C33_Sum5(values, Len(values)) < 9 * C33_Sum5(values, Len(values) - 5)

C33_Suggested(suggestions, system) ==
    \E k \in 1..Len(suggestions) :
       /\ suggestions[k].system = system
       /\ suggestions[k].type = "performance_decline"

C33_SuggestionsFollowTrends ==
    [][ Update /\ settings.enable_autonomous_optimization =>
          /\ \A i \in 1..Len(performance_trends') :
                C33_Declines(performance_trends'[i].values)
                   <=> C33_Suggested(improvement_suggestions',
                                     performance_trends'[i].system)
          /\ \A k \in 1..Len(improvement_suggestions') :
                \E i \in 1..Len(performance_trends') :
                   performance_trends'[i].system
                      = improvement_suggestions'[k].system
      ]_vars

\* C35: each recorded metric contributes at most one entry to its
\* subsystem's trend sequence: a trend never holds more entries than
\* metrics were recorded for its subsystem.
C35_Metrics(system) ==
    Cardinality({k \in 1..Len(recorded) : recorded[k].system_name = system})

C35_OneEntryPerMetric ==
    \A i \in 1..Len(performance_trends) :
       Len(performance_trends[i].values)
          <= C35_Metrics(performance_trends[i].system)

\* C36: every request ever placed in the queue pairs a subsystem with the
\* default strategy mapped to it; a strategy added through
\* add_optimization_strategy is never enqueued and never applied.
C36_Mapping ==
    { <<"renderer", "rendering_quality_adjustment">>,
      <<"physics", "physics_complexity_reduction">>,
      <<"ai_behavior", "ai_behavior_optimization">>,
      <<"content_generator", "content_generation_caching">>,
      <<"networking", "network_packet_rate_adjustment">> }

C36_OnlyMappedDefaults ==
    /\ \A k \in 1..Len(enqueued) :
          /\ enqueued[k].strategy \in 1..5
          /\ <<enqueued[k].system,
               optimization_strategies[enqueued[k].strategy].name>>
                 \in C36_Mapping
    /\ \A i \in 6..Len(optimization_strategies) :
          /\ optimization_strategies[i].application_count = 0
          /\ optimization_strategies[i].effectiveness = 0

C36_Witness ==
    /\ Len(optimization_strategies) = 7
    /\ optimization_strategies[6].name = "rendering_quality_adjustment"
    /\ \E k \in 1..Len(enqueued) :
          /\ enqueued[k].system = "renderer"
          /\ enqueued[k].timestamp > StartTime
    /\ optimization_strategies[1].application_count >= 2

\* C37: optimizations_applied + failed_optimizations is the number of
\* requests dequeued so far, and the application counts of all strategies
\* add up to optimizations_applied.
C37_Applications ==
    LET F[i \in 0..Len(optimization_strategies)] ==
          IF i = 0 THEN 0
          ELSE F[i-1] + optimization_strategies[i].application_count
    IN F[Len(optimization_strategies)]

C37_CountersConserved ==
    /\ stats.optimizations_applied + stats.failed_optimizations = Len(applied)
    /\ Len(applied) + Len(optimization_queue) = Len(enqueued)
    /\ C37_Applications = stats.optimizations_applied

C37_Witness ==
    /\ stats.optimizations_applied >= 3
    /\ optimization_strategies[1].application_count >= 1
    /\ optimization_strategies[2].application_count >= 1
    /\ Len(optimization_strategies) > 5
    /\ \E k \in 1..Len(applied) : ~applied[k].random_success

\* C38: within one update() call the adaptation cycle runs before the
\* drain: a queue that held q requests before the call, to which the cycle
\* added e, holds max(0, q + e - 1) after it.
C38_Call ==
    \E t \in Threads, random_success \in BOOLEAN :
       update_improvement_system(t, random_success)

C38_CycleThenDrain ==
    [][ C38_Call =>
          LET q == Len(optimization_queue)
              e == Len(enqueued') - Len(enqueued)
          IN Len(optimization_queue') = Max(0, q + e - 1)
      ]_vars

\* C34: within one run the scheduler's scan runs once every 300 ticks: a
\* scan that follows another scan of the run is the 300th tick after it,
\* and the 300th tick after a scan runs one.
C34_Tick == \E t \in Threads : adapt(t)

C34_ScanEvery300 ==
    [][ C34_Tick =>
          /\ (since_scan >= 0 /\ since_scan' = 0) => since_scan = 299
          /\ since_scan = 299 => since_scan' = 0
      ]_vars

\* C39: the engine state changes only by the guarded transitions Stopped to
\* Running (start), Running to Paused (pause), Paused to Running (resume)
\* and any state to Stopped (stop); a thread is created and the frame
\* counter reset only by a start() from Stopped, a call in another state
\* changes nothing, and the Error state is never reached.
C39_Transitions ==
    { <<"STOPPED", "RUNNING">>, <<"RUNNING", "PAUSED">>,
      <<"PAUSED", "RUNNING">>, <<"RUNNING", "STOPPED">>,
      <<"PAUSED", "STOPPED">> }

C39_Started == state = "STOPPED" /\ state' = "RUNNING"

C39_GuardedTransitions ==
    /\ [](state \in {"STOPPED", "RUNNING", "PAUSED"})
    /\ [][ /\ state' # state => <<state, state'>> \in C39_Transitions
           /\ C39_Started =>
                 /\ Len(threads') = Len(threads) + 1
                 /\ current_frame' = 0
           /\ ~C39_Started =>
                 /\ Len(threads') = Len(threads)
                 /\ current_frame' \in {current_frame, current_frame + 1}
           /\ (state' # state /\ ~C39_Started) =>
                 current_frame' = current_frame
         ]_vars

C39_Witness ==
    /\ state = "PAUSED"
    /\ Len(threads) = 2
    /\ current_frame >= 1
    /\ stop_called[1]

\* C40: clear_performance_history empties performance_history and
\* performance_trends and leaves everything else as it was: baselines,
\* queue, strategies, statistics, suggestions, settings and the time of the
\* last adaptation.
C40_ClearsHistoryOnly ==
    [][ (performance_history # <<>> /\ performance_history' = <<>>) =>
          /\ performance_trends' = <<>>
          /\ UNCHANGED <<system_baselines, optimization_queue,
                         optimization_strategies, stats,
                         improvement_suggestions, settings,
                         last_adaptation_time>>
      ]_vars

C40_Witness ==
    /\ performance_history = <<>>
    /\ performance_trends = <<>>
    /\ system_baselines # <<>>
    /\ optimization_queue # <<>>
    /\ stats.optimizations_applied >= 1
    /\ last_adaptation_time > 0

=============================================================================
